---- MODULE Spec2Model ----
(***************************************************************************)
(* Model of pysc2/bin/compare_binaries.py: main() launches one engine      *)
(* process per binary version, replays the same replay on all of them in   *)
(* lockstep, diffs every peer's observation against the reference          *)
(* (instance 1 here, index 0 in the Python source), counts divergences,    *)
(* tears the processes down and prints a report.                           *)
(*                                                                         *)
(* Python lists are modelled as TLA+ sequences, so instance k of the       *)
(* source (0-based) is instance k+1 of the model.  main() is cut into      *)
(* one action per external call (launch, replay_info, start_replay, step,  *)
(* observe, compute_diff, report of one diff, quit, close); every such     *)
(* call may return, raise an ordinary exception ("fail") or be cut short   *)
(* by a KeyboardInterrupt ("interrupt").                                   *)
(***************************************************************************)
EXTENDS Integers, Sequences, FiniteSets, TLC

\* Largest number of binaries given on the command line.
MaxN == 3
\* Largest value of the --count flag.
MaxCount == 2
\* Largest numbers of units, of orders of a unit and of actions in an
\* observation handed to the normalizer on its own, and of its applications.
MaxUnits == 2
MaxOrders == 1
MaxActions == 1
MaxApply == 2

Ref == 1

Outcomes == {"ok", "fail", "interrupt"}

\* The calls main() issues to an instance; launch, start_replay, step and
\* observe are the phases its timer records.
Phases == {"launch", "replay_info", "start_replay", "step", "observe", "quit", "close"}

(***************************************************************************)
(* Observations.  A ResponseObservation is reduced to the fields the       *)
(* program reads or clears: the raw units with their tags and orders, the  *)
(* actions, one deterministic field per unit (health), the score and       *)
(* player_result.  A tag of 0 is the proto3 default, i.e. a cleared field. *)
(***************************************************************************)
Unit(tag, health, orders) == [tag |-> tag, health |-> health, orders |-> orders]

Order(target) == [ability_id |-> 1, target_unit_tag |-> target]

UnitCommand(target) ==
  [has_action_raw |-> TRUE, has_unit_command |-> TRUE, target_unit_tag |-> target]

MkObs(t1, t2, h1, h2, sc, res) ==
  [units |-> << Unit(t1, h1, << Order(t2) >>), Unit(t2, h2, << >>) >>,
   actions |-> << UnitCommand(t2) >>,
   score |-> sc,
   player_result |-> res]

\* The observations an engine may return from observe().
ObsValues ==
  { MkObs(1, 2, 5, 5, 0, FALSE),    \* the base observation
    MkObs(3, 4, 5, 5, 0, FALSE),    \* differs from it in tags only
    MkObs(5, 6, 4, 4, 1, TRUE) }    \* terminal: other tags, both healths and the score differ

\* _clear_non_deterministic_fields(obs)
\* ClearUnit without the loop over the unit's orders.
ClearUnitKeepsOrders(unit) == [unit EXCEPT !.tag = 0]

ClearOrder(order) == [order EXCEPT !.target_unit_tag = 0]

ClearUnit(unit) ==
  [unit EXCEPT !.tag = 0,
               !.orders = [k \in 1..Len(unit.orders) |-> ClearOrder(unit.orders[k])]]

ClearAction(action) ==
  IF action.has_action_raw /\ action.has_unit_command
    THEN [action EXCEPT !.target_unit_tag = 0]
    ELSE action

_clear_non_deterministic_fields(o) ==
  [o EXCEPT !.units = [k \in 1..Len(o.units) |-> ClearUnit(o.units[k])],
            !.actions = [k \in 1..Len(o.actions) |-> ClearAction(o.actions[k])]]

(***************************************************************************)
(* proto_diff.  A field path is the sequence of field names with the       *)
(* sequence of array indices met on the way; Star is the anonymous index.  *)
(***************************************************************************)
Star == 0

Path(fields, indices) == [fields |-> fields, indices |-> indices]

with_anonymous_array_indices(path) ==
  [path EXCEPT !.indices = [k \in 1..Len(path.indices) |-> Star]]

Min(a, b) == IF a < b THEN a ELSE b

OrderDiffs(u, a, b) ==
  { Path(<<"units", "orders", "target_unit_tag">>, <<u, k>>) :
      k \in { j \in 1..Min(Len(a), Len(b)) : a[j].target_unit_tag # b[j].target_unit_tag } }
  \cup (IF Len(a) # Len(b) THEN { Path(<<"units", "orders">>, <<u>>) } ELSE {})

UnitDiffs(a, b) ==
  LET common == 1..Min(Len(a), Len(b)) IN
    { Path(<<"units", "tag">>, <<k>>) : k \in { j \in common : a[j].tag # b[j].tag } }
    \cup { Path(<<"units", "health">>, <<k>>) : k \in { j \in common : a[j].health # b[j].health } }
    \cup UNION { OrderDiffs(k, a[k].orders, b[k].orders) : k \in common }
    \cup (IF Len(a) # Len(b) THEN { Path(<<"units">>, << >>) } ELSE {})

ActionDiffs(a, b) ==
  { Path(<<"actions">>, <<k>>) : k \in { j \in 1..Min(Len(a), Len(b)) : a[j] # b[j] } }
  \cup (IF Len(a) # Len(b) THEN { Path(<<"actions">>, << >>) } ELSE {})

\* compute_diff(a, b).all_diffs(): the paths of the fields that differ.
compute_diff(a, b) ==
  UnitDiffs(a.units, b.units)
  \cup ActionDiffs(a.actions, b.actions)
  \cup (IF a.score # b.score THEN { Path(<<"score", "score">>, << >>) } ELSE {})
  \cup (IF a.player_result # b.player_result THEN { Path(<<"player_result">>, << >>) } ELSE {})

\* Every path compute_diff can report on ObsValues, before or after clearing.
AllPaths ==
  UNION { compute_diff(a, b) \cup
          compute_diff(_clear_non_deterministic_fields(a), _clear_non_deterministic_fields(b)) :
            a \in ObsValues, b \in ObsValues }

AnonPaths == { with_anonymous_array_indices(p) : p \in AllPaths }

(***************************************************************************)
(* State of main().                                                        *)
(***************************************************************************)
VARIABLES
  argv,           \* the command line: <<0>> is the program name alone
  FLAGS,          \* [diff, count]
  version_names,  \* argv[1:]
  replay_data,    \* TRUE once run_config.replay_data() has returned
  procs,          \* the launched processes, in launch order
  calls,          \* history: calls[i][c] = calls of kind c issued to instance i
  pc,             \* the statement main() is at
  idx,            \* the instance the current for loop is at
  iter,           \* iterations of the count loop started so far
  obs,            \* the observations of the current iteration
  diffs,          \* the diffs of the current iteration, by peer
  diff_counts,
  diff_paths,
  pending,        \* the exception in flight: pending in the finally clause, or leaving main()
  exit,           \* how main() ended
  report,         \* what the report printed
  fault,          \* history: the first exception raised before the finally clause
  tdfault,        \* history: the exception raised inside the finally clause
  diverged,       \* history: diverged[i] = non-empty diffs compute_diff returned for peer i
  found,          \* history: found[p] = diffs returned by compute_diff that contain path p
  norm            \* the normalizer on its own: an observation and its successive clearings

vars == << argv, FLAGS, version_names, replay_data, procs, calls, pc, idx, iter,
           obs, diffs, diff_counts, diff_paths, pending, exit, report, fault,
           tdfault, diverged, found, norm >>

N == Len(version_names)

NoFault == [kind |-> "none", at |-> "none", inst |-> 0]

Fault(kind, at, inst) == [kind |-> kind, at |-> at, inst |-> inst]

NoReport == [printed |-> FALSE, diff_section |-> FALSE, binaries |-> << >>, paths |-> << >>]

Init ==
  /\ argv \in { [k \in 1..n |-> k - 1] : n \in 0..(MaxN + 1) }
  /\ FLAGS \in [diff : BOOLEAN, count : 0..MaxCount]
  /\ version_names = << >>
  /\ replay_data = FALSE
  /\ procs = << >>
  /\ calls = << >>
  /\ pc = "main"
  /\ idx = 0
  /\ iter = 0
  /\ obs = << >>
  /\ diffs = << >>
  /\ diff_counts = << >>
  /\ diff_paths = [p \in AnonPaths |-> 0]
  /\ pending = NoFault
  /\ exit = "running"
  /\ report = NoReport
  /\ fault = NoFault
  /\ tdfault = NoFault
  /\ diverged = << >>
  /\ found = [p \in AllPaths |-> 0]
  /\ norm = << >>

Called(i, phase) == [calls EXCEPT ![i][phase] = @ + 1]

\* An exception leaves main(): "fail" is any Exception, "interrupt" a KeyboardInterrupt.
ExitWith(kind) == IF kind = "fail" THEN "error" ELSE "interrupt"

\* The finally clause has run to its end with exception p pending (lines 143-147).
EndFinally(p) ==
  /\ idx' = idx
  /\ IF p # NoFault
       THEN pc' = "done" /\ exit' = ExitWith(p.kind)
       ELSE pc' = "report" /\ exit' = exit

\* A teardown that starts at the last instance (a variant the lifecycle
\* order rules out).
FinallyFromLast(p) ==
  /\ pending' = p
  /\ IF procs = << >>
       THEN EndFinally(p)
       ELSE pc' = "quit" /\ idx' = Len(procs) /\ exit' = exit

\* Control enters the finally clause with exception p pending (line 143).
Finally(p) ==
  /\ pending' = p
  /\ IF procs = << >>
       THEN EndFinally(p)
       ELSE pc' = "quit" /\ idx' = 1 /\ exit' = exit

\* An exception is raised inside the try block (lines 102-142): a
\* KeyboardInterrupt is swallowed by the except clause, anything else stays
\* pending while the finally clause runs.
Raise(kind, at, inst) ==
  /\ fault' = Fault(kind, at, inst)
  /\ Finally(IF kind = "interrupt" THEN NoFault ELSE Fault(kind, at, inst))

\* Lines 61-65.
Main ==
  /\ pc = "main"
  /\ IF argv = << >>
       THEN /\ pc' = "done"
            /\ exit' = "usage"
            /\ UNCHANGED version_names
       ELSE /\ pc' = "replay_data"
            /\ exit' = exit
            /\ version_names' = Tail(argv)
  /\ UNCHANGED << norm, argv, FLAGS, replay_data, procs, calls, idx, iter, obs, diffs,
                  diff_counts, diff_paths, pending, report, fault, tdfault, diverged, found >>

\* Lines 82-91: load the replay, build versions and timers.
LoadReplay(outcome) ==
  /\ pc = "replay_data"
  /\ IF outcome = "ok"
       THEN /\ replay_data' = TRUE
            /\ calls' = [i \in 1..N |-> [ph \in Phases |-> 0]]
            /\ idx' = 1
            /\ pc' = IF N = 0 THEN "replay_info" ELSE "launch"
            /\ UNCHANGED << exit, fault, pending, diff_counts >>
       ELSE /\ pc' = "done"
            /\ exit' = ExitWith(outcome)
            /\ fault' = Fault(outcome, "replay_data", 0)
            /\ pending' = fault'
            /\ UNCHANGED << replay_data, calls, idx, diff_counts >>
  /\ UNCHANGED << norm, argv, FLAGS, version_names, procs, iter, obs, diffs, diff_paths,
                  report, tdfault, diverged, found >>

\* Lines 93-100: launch one process; the loop is outside the try block.
Launch(outcome) ==
  /\ pc = "launch"
  /\ calls' = Called(idx, "launch")
  /\ IF outcome = "ok"
       THEN /\ procs' = Append(procs, idx)
            /\ IF idx = N
                 THEN /\ pc' = "replay_info"
                      /\ idx' = 1
                      /\ diff_counts' = [i \in 1..N |-> 0]
                      /\ diverged' = [i \in 1..N |-> 0]
                 ELSE /\ pc' = "launch"
                      /\ idx' = idx + 1
                      /\ UNCHANGED << diff_counts, diverged >>
            /\ UNCHANGED << exit, fault, pending >>
       ELSE /\ pc' = "done"
            /\ exit' = ExitWith(outcome)
            /\ fault' = Fault(outcome, "launch", idx)
            /\ pending' = fault'
            /\ UNCHANGED << procs, idx, diff_counts, diverged >>
  /\ UNCHANGED << norm, argv, FLAGS, version_names, replay_data, iter, obs, diffs,
                  diff_paths, report, tdfault, found >>

\* NextIteration with the loop test off by one: range(count + 1).
NextIterationOneMore ==
  IF iter <= FLAGS.count
    THEN /\ iter' = iter + 1
         /\ pc' = "step"
         /\ idx' = 1
         /\ UNCHANGED << pending, exit >>
    ELSE /\ iter' = iter
         /\ Finally(NoFault)

\* An iteration whose step pass leaves out the reference.
NextIterationFromSecond ==
  IF iter < FLAGS.count
    THEN /\ iter' = iter + 1
         /\ pc' = "step"
         /\ idx' = IF N >= 2 THEN 2 ELSE 1
         /\ UNCHANGED << pending, exit >>
    ELSE /\ iter' = iter
         /\ Finally(NoFault)

\* The count loop is entered or re-entered (line 111).
NextIteration ==
  IF iter < FLAGS.count
    THEN /\ iter' = iter + 1
         /\ pc' = "step"
         /\ idx' = 1
         /\ UNCHANGED << pending, exit >>
    ELSE /\ iter' = iter
         /\ Finally(NoFault)

\* Lines 103-105: controllers[0] raises IndexError when nothing was launched.
ReplayInfo(outcome) ==
  /\ pc = "replay_info"
  /\ IF procs = << >>
       THEN /\ Raise("fail", "replay_info", 0)
            /\ calls' = calls
       ELSE /\ calls' = Called(Ref, "replay_info")
            /\ IF outcome = "ok"
                 THEN /\ pc' = "start_replay"
                      /\ idx' = 1
                      /\ UNCHANGED << pending, exit, fault >>
                 ELSE Raise(outcome, "replay_info", Ref)
  /\ UNCHANGED << norm, argv, FLAGS, version_names, replay_data, procs, iter, obs, diffs,
                  diff_counts, diff_paths, report, tdfault, diverged, found >>

\* Lines 107-109.
StartReplay(outcome) ==
  /\ pc = "start_replay"
  /\ calls' = Called(idx, "start_replay")
  /\ IF outcome = "ok"
       THEN /\ fault' = fault
            /\ IF idx = N
                 THEN NextIteration
                 ELSE /\ pc' = "start_replay"
                      /\ idx' = idx + 1
                      /\ UNCHANGED << iter, pending, exit >>
       ELSE /\ Raise(outcome, "start_replay", idx)
            /\ iter' = iter
  /\ UNCHANGED << norm, argv, FLAGS, version_names, replay_data, procs, obs, diffs,
                  diff_counts, diff_paths, report, tdfault, diverged, found >>

\* Step with the pass over the controllers ending one instance early.
StepLeavesEarly(outcome) ==
  /\ pc = "step"
  /\ calls' = Called(idx, "step")
  /\ IF outcome = "ok"
       THEN /\ fault' = fault
            /\ UNCHANGED << pending, exit >>
            /\ IF idx >= N - 1
                 THEN pc' = "observe" /\ idx' = 1 /\ obs' = << >>
                 ELSE pc' = "step" /\ idx' = idx + 1 /\ obs' = obs
       ELSE /\ Raise(outcome, "step", idx)
            /\ obs' = obs
  /\ UNCHANGED << norm, argv, FLAGS, version_names, replay_data, procs, iter, diffs,
                  diff_counts, diff_paths, report, tdfault, diverged, found >>

\* Lines 112-116.
Step(outcome) ==
  /\ pc = "step"
  /\ calls' = Called(idx, "step")
  /\ IF outcome = "ok"
       THEN /\ fault' = fault
            /\ UNCHANGED << pending, exit >>
            /\ IF idx = N
                 THEN pc' = "observe" /\ idx' = 1 /\ obs' = << >>
                 ELSE pc' = "step" /\ idx' = idx + 1 /\ obs' = obs
       ELSE /\ Raise(outcome, "step", idx)
            /\ obs' = obs
  /\ UNCHANGED << norm, argv, FLAGS, version_names, replay_data, procs, iter, diffs,
                  diff_counts, diff_paths, report, tdfault, diverged, found >>

\* Observe leaving the loop for the result test before the iteration is diffed.
ObserveSkipsFinalDiff(outcome, o) ==
  /\ pc = "observe"
  /\ calls' = Called(idx, "observe")
  /\ IF outcome = "ok"
       THEN /\ obs' = Append(obs, o)
            /\ UNCHANGED << pending, exit, fault >>
            /\ IF idx = N
                 THEN /\ pc' = IF FLAGS.diff /\ ~obs'[Ref].player_result
                              THEN "normalize"
                              ELSE "check"
                      /\ idx' = 1
                 ELSE /\ pc' = "observe"
                      /\ idx' = idx + 1
       ELSE /\ Raise(outcome, "observe", idx)
            /\ obs' = obs
  /\ UNCHANGED << norm, argv, FLAGS, version_names, replay_data, procs, iter, diffs,
                  diff_counts, diff_paths, report, tdfault, diverged, found >>

\* An observe pass that enters the diffing whatever the diff flag says.
ObserveIgnoresFlag(outcome, o) ==
  /\ pc = "observe"
  /\ calls' = Called(idx, "observe")
  /\ IF outcome = "ok"
       THEN /\ obs' = Append(obs, o)
            /\ UNCHANGED << pending, exit, fault >>
            /\ IF idx = N
                 THEN /\ pc' = "normalize"
                      /\ idx' = 1
                 ELSE /\ pc' = "observe"
                      /\ idx' = idx + 1
       ELSE /\ Raise(outcome, "observe", idx)
            /\ obs' = obs
  /\ UNCHANGED << norm, argv, FLAGS, version_names, replay_data, procs, iter, diffs,
                  diff_counts, diff_paths, report, tdfault, diverged, found >>

\* Lines 117-121: observe one instance; the last one completes the iteration's list.
Observe(outcome, o) ==
  /\ pc = "observe"
  /\ calls' = Called(idx, "observe")
  /\ IF outcome = "ok"
       THEN /\ obs' = Append(obs, o)
            /\ UNCHANGED << pending, exit, fault >>
            /\ IF idx = N
                 THEN /\ pc' = IF FLAGS.diff THEN "normalize" ELSE "check"
                      /\ idx' = 1
                 ELSE /\ pc' = "observe"
                      /\ idx' = idx + 1
       ELSE /\ Raise(outcome, "observe", idx)
            /\ obs' = obs
  /\ UNCHANGED << norm, argv, FLAGS, version_names, replay_data, procs, iter, diffs,
                  diff_counts, diff_paths, report, tdfault, diverged, found >>

\* Lines 122-123: clear the non-deterministic fields of every observation.
Normalize ==
  /\ pc = "normalize"
  /\ obs' = [k \in 1..Len(obs) |-> _clear_non_deterministic_fields(obs[k])]
  /\ diffs' = << >>
  /\ pc' = IF Len(obs) > 1 THEN "compute_diff" ELSE "check"
  /\ idx' = 2
  /\ UNCHANGED << norm, argv, FLAGS, version_names, replay_data, procs, calls, iter,
                  diff_counts, diff_paths, pending, exit, report, fault, tdfault, diverged, found >>

AnyDiff(d) == \E i \in DOMAIN d : d[i] # {}

\* Lines 125-127: diff one peer against the reference, in list order.
ComputeDiff(outcome) ==
  /\ pc = "compute_diff"
  /\ IF outcome = "ok"
       THEN /\ diffs' = diffs @@ (idx :> compute_diff(obs[Ref], obs[idx]))
            /\ diverged' = IF diffs'[idx] # {}
                              THEN [diverged EXCEPT ![idx] = @ + 1]
                              ELSE diverged
            /\ found' = [p \in DOMAIN found |->
                            IF p \in diffs'[idx] THEN found[p] + 1 ELSE found[p]]
            /\ UNCHANGED << pending, exit, fault >>
            /\ IF idx = Len(obs)
                 THEN /\ pc' = IF AnyDiff(diffs') THEN "record" ELSE "check"
                      /\ idx' = 2
                 ELSE /\ pc' = "compute_diff"
                      /\ idx' = idx + 1
       ELSE /\ Raise(outcome, "compute_diff", idx)
            /\ UNCHANGED << diffs, diverged, found >>
  /\ UNCHANGED << norm, argv, FLAGS, version_names, replay_data, procs, calls, iter, obs,
                  diff_counts, diff_paths, report, tdfault >>

\* CountPaths counting an anonymous path once per diff, not once per field.
CountPathsOncePerDiff(counter, diff) ==
  [q \in DOMAIN counter |->
     IF \E p \in diff : with_anonymous_array_indices(p) = q
       THEN counter[q] + 1
       ELSE counter[q]]

\* Lines 136-137: count every differing field under its anonymous path.
CountPaths(counter, diff) ==
  [q \in DOMAIN counter |->
     counter[q] + Cardinality({ p \in diff : with_anonymous_array_indices(p) = q })]

\* A count that charges a divergence to the reference as well as to the peer.
CountDiffOnBoth(counts, i) == [counts EXCEPT ![i] = @ + 1, ![Ref] = @ + 1]

\* diff_counts[i] += 1 (line 133)
CountDiff(counts, i) == [counts EXCEPT ![i] = @ + 1]

\* Lines 130-137: record one peer's diff; diff.report() is where it may raise.
Record(outcome) ==
  /\ pc = "record"
  /\ IF diffs[idx] # {}
       THEN /\ diff_counts' = CountDiff(diff_counts, idx)
            /\ IF outcome = "ok"
                 THEN /\ diff_paths' = CountPaths(diff_paths, diffs[idx])
                      /\ UNCHANGED << pending, exit, fault >>
                      /\ IF idx = Len(obs)
                           THEN pc' = "check" /\ idx' = 1
                           ELSE pc' = "record" /\ idx' = idx + 1
                 ELSE /\ diff_paths' = diff_paths
                      /\ Raise(outcome, "record", idx)
       ELSE /\ outcome = "ok"
            /\ UNCHANGED << diff_counts, diff_paths, pending, exit, fault >>
            /\ IF idx = Len(obs)
                 THEN pc' = "check" /\ idx' = 1
                 ELSE pc' = "record" /\ idx' = idx + 1
  /\ UNCHANGED << norm, argv, FLAGS, version_names, replay_data, procs, calls, iter, obs,
                  diffs, report, tdfault, diverged, found >>

\* Check without the break on the reference's game result.
CheckWithoutBreak ==
  /\ pc = "check"
  /\ NextIteration
  /\ UNCHANGED << norm, argv, FLAGS, version_names, replay_data, procs, calls, obs, diffs,
                  diff_counts, diff_paths, report, fault, tdfault, diverged, found >>

\* A result test that looks at every instance's observation.
CheckAnyResult ==
  /\ pc = "check"
  /\ IF \E i \in DOMAIN obs : obs[i].player_result
       THEN Finally(NoFault) /\ iter' = iter
       ELSE NextIteration
  /\ UNCHANGED << norm, argv, FLAGS, version_names, replay_data, procs, calls, obs, diffs,
                  diff_counts, diff_paths, report, fault, tdfault, diverged, found >>

\* Lines 139-140 and the loop test of line 111.
Check ==
  /\ pc = "check"
  /\ IF obs[Ref].player_result
       THEN Finally(NoFault) /\ iter' = iter
       ELSE NextIteration
  /\ UNCHANGED << norm, argv, FLAGS, version_names, replay_data, procs, calls, obs, diffs,
                  diff_counts, diff_paths, report, fault, tdfault, diverged, found >>

\* Line 145: an exception raised here leaves the finally clause and main(),
\* in place of the one that was pending.
Quit(outcome) ==
  /\ pc = "quit"
  /\ calls' = Called(procs[idx], "quit")
  /\ IF outcome = "ok"
       THEN /\ pc' = "close"
            /\ UNCHANGED << exit, tdfault, pending >>
       ELSE /\ pc' = "done"
            /\ exit' = ExitWith(outcome)
            /\ tdfault' = Fault(outcome, "quit", procs[idx])
            /\ pending' = tdfault'
  /\ UNCHANGED << norm, argv, FLAGS, version_names, replay_data, procs, idx, iter, obs,
                  diffs, diff_counts, diff_paths, report, fault, diverged, found >>

\* Line 146.
Close(outcome) ==
  /\ pc = "close"
  /\ calls' = Called(procs[idx], "close")
  /\ IF outcome = "ok"
       THEN /\ UNCHANGED << tdfault, pending >>
            /\ IF idx = Len(procs)
                 THEN EndFinally(pending)
                 ELSE pc' = "quit" /\ idx' = idx + 1 /\ exit' = exit
       ELSE /\ pc' = "done"
            /\ idx' = idx
            /\ exit' = ExitWith(outcome)
            /\ tdfault' = Fault(outcome, "close", procs[idx])
            /\ pending' = tdfault'
  /\ UNCHANGED << norm, argv, FLAGS, version_names, replay_data, procs, iter, obs,
                  diffs, diff_counts, diff_paths, report, fault, diverged, found >>

\* The argument of most_common (line 155).
TopN == 100

\* The (count, element) lines of a counter, for the elements it holds.
Entries(counter) == { << counter[p], p >> : p \in { q \in DOMAIN counter : counter[q] > 0 } }

Orderings(S) ==
  { sq \in [1..Cardinality(S) -> S] : \A e \in S : \E k \in DOMAIN sq : sq[k] = e }

Descending(sq) == \A k \in 1..(Len(sq) - 1) : sq[k][1] >= sq[k + 1][1]

Truncated(sq, n) == SubSeq(sq, 1, Min(n, Len(sq)))

\* MostCommon listing the elements in any order.
MostCommonUnsorted(counter, n) ==
  { Truncated(sq, n) : sq \in Orderings(Entries(counter)) }

\* Counter.most_common(n): the n largest counts, largest first; the order
\* of equal counts is the order of first insertion, which the order of
\* all_diffs() decides, so every order of equal counts is possible.
MostCommon(counter, n) ==
  { Truncated(sq, n) : sq \in { o \in Orderings(Entries(counter)) : Descending(o) } }

\* Lines 148-162: print the report and return.
Report ==
  /\ pc = "report"
  /\ \E ranked \in MostCommon(diff_paths, TopN) :
       report' = [printed |-> TRUE,
                  diff_section |-> FLAGS.diff,
                  binaries |-> IF FLAGS.diff
                                 THEN [i \in 1..N |-> << diff_counts[i], i >>]
                                 ELSE << >>,
                  paths |-> IF FLAGS.diff THEN ranked ELSE << >>]
  /\ pc' = "done"
  /\ exit' = "ok"
  /\ UNCHANGED << norm, argv, FLAGS, version_names, replay_data, procs, calls, idx, iter,
                  obs, diffs, diff_counts, diff_paths, pending, fault, tdfault, diverged, found >>

Next ==
  \/ Main
  \/ \E outcome \in Outcomes : LoadReplay(outcome)
  \/ \E outcome \in Outcomes : Launch(outcome)
  \/ \E outcome \in Outcomes : ReplayInfo(outcome)
  \/ \E outcome \in Outcomes : StartReplay(outcome)
  \/ \E outcome \in Outcomes : Step(outcome)
  \/ \E outcome \in Outcomes, o \in ObsValues : Observe(outcome, o)
  \/ Normalize
  \/ \E outcome \in Outcomes : ComputeDiff(outcome)
  \/ \E outcome \in Outcomes : Record(outcome)
  \/ Check
  \/ \E outcome \in Outcomes : Quit(outcome)
  \/ \E outcome \in Outcomes : Close(outcome)
  \/ Report

Spec == Init /\ [][Next]_vars

TypeOK ==
  /\ pc \in {"main", "replay_data", "launch", "replay_info", "start_replay", "step",
             "observe", "normalize", "compute_diff", "record", "check", "quit",
             "close", "report", "done"}
  /\ exit \in {"running", "usage", "error", "interrupt", "ok"}
  /\ pending = NoFault \/ pending.kind \in {"fail", "interrupt"}
  /\ Len(procs) <= N
  /\ iter \in 0..FLAGS.count

(***************************************************************************)
(* Vocabulary of the properties.                                           *)
(***************************************************************************)
Launched == 1..Len(procs)

\* Instance i was sent quit once and closed once.
TornDownOnce(i) == calls[i]["quit"] = 1 /\ calls[i]["close"] = 1

\* The statements of the finally clause and after it.
AfterLoop == pc \in {"quit", "close", "report", "done"}

\* The places of the comparison loop where a call can raise.
LoopPlaces == {"step", "observe", "compute_diff", "record"}

\* The reference observation of the current iteration carries a game result.
RefTerminal == Len(obs) >= 1 /\ obs[Ref].player_result

\* No step and no observe call is issued in this step of the run.
NoStepNoObserve ==
  \A i \in DOMAIN calls :
    /\ calls'[i]["step"] = calls[i]["step"]
    /\ calls'[i]["observe"] = calls[i]["observe"]

(***************************************************************************)
(* C1. Teardown totality: when start_replay, step, observe or the diffing  *)
(* raises inside the try block, then by the time main() has exited every   *)
(* one of the N instances has been sent exactly one quit and exactly one   *)
(* close.                                                                  *)
(***************************************************************************)
C1_TeardownTotality ==
  (/\ pc = "done"
   /\ fault.kind = "fail"
   /\ fault.at \in LoopPlaces \cup {"start_replay"})
  => /\ Len(procs) = N
     /\ \A i \in 1..N : TornDownOnce(i)

\* The same with the teardown calls themselves returning: this much the code does.
TeardownTotalityUnlessTeardownRaises ==
  (/\ pc = "done"
   /\ fault.at \in LoopPlaces \cup {"start_replay", "replay_info"}
   /\ tdfault = NoFault)
  => \A i \in Launched : TornDownOnce(i)

(***************************************************************************)
(* C2. Budget termination: the number of step rounds never exceeds count;  *)
(* when no call raised and the reference never returned a game result the  *)
(* loop has run exactly count iterations, every instance stepped and       *)
(* observed exactly count times; with count = 0 nothing is stepped or      *)
(* observed and (no call raising) every instance is still torn down.       *)
(***************************************************************************)
C2_BudgetTermination ==
  /\ iter <= FLAGS.count
  /\ \A i \in DOMAIN calls :
       calls[i]["step"] <= FLAGS.count /\ calls[i]["observe"] <= FLAGS.count
  /\ (AfterLoop /\ fault = NoFault /\ ~RefTerminal /\ exit # "usage")
       => /\ iter = FLAGS.count
          /\ \A i \in 1..N :
               calls[i]["step"] = FLAGS.count /\ calls[i]["observe"] = FLAGS.count
  /\ FLAGS.count = 0
       => \A i \in DOMAIN calls : calls[i]["step"] = 0 /\ calls[i]["observe"] = 0
  /\ (FLAGS.count = 0 /\ pc = "done" /\ exit = "ok")
       => \A i \in 1..N : TornDownOnce(i)

C2_Witness ==
  /\ pc = "done"
  /\ exit = "ok"
  /\ fault = NoFault
  /\ ~RefTerminal
  /\ N = 3
  /\ FLAGS.count = 2
  /\ \A i \in 1..N : calls[i]["step"] = 2 /\ calls[i]["observe"] = 2 /\ TornDownOnce(i)

(***************************************************************************)
(* C3. Result termination, as claimed: from the moment the reference has   *)
(* returned an observation with a game result, no step and no observe call *)
(* is issued to any instance.                                              *)
(***************************************************************************)
C3_NoObserveAfterResult == [][RefTerminal => NoStepNoObserve]_vars

(***************************************************************************)
(* C3, amended: the iteration in which the reference returned a game       *)
(* result still observes the remaining instances; once it has observed     *)
(* them all, no step and no observe call is issued to any instance,        *)
(* whatever is left of the count budget, and the only calls issued from    *)
(* then on are those of the teardown.  No instance is stepped after the    *)
(* reference returned the result.                                          *)
(***************************************************************************)
C3_ResultTermination ==
  [][ /\ RefTerminal
        => \A i \in DOMAIN calls : calls'[i]["step"] = calls[i]["step"]
      /\ (RefTerminal /\ pc # "observe")
        => /\ NoStepNoObserve
           /\ calls' # calls => pc \in {"quit", "close"} ]_vars

C3_Witness ==
  /\ RefTerminal
  /\ pc = "quit"
  /\ idx = 1
  /\ fault = NoFault
  /\ N = 3
  /\ iter = 1
  /\ FLAGS.count = 2

(***************************************************************************)
(* C4. Interrupted run: after a KeyboardInterrupt raised in the loop,      *)
(* main() has issued no further step or observe call, has torn down every  *)
(* instance exactly once, has printed the report and has returned          *)
(* normally.                                                               *)
(***************************************************************************)
StoppedAt(f) ==
  \A i \in 1..N :
    /\ calls[i]["step"] = IF f.at = "step" /\ i > f.inst THEN iter - 1 ELSE iter
    /\ calls[i]["observe"] =
         IF f.at = "step" \/ (f.at = "observe" /\ i > f.inst) THEN iter - 1 ELSE iter

C4_InterruptedRun ==
  (/\ pc = "done"
   /\ fault.kind = "interrupt"
   /\ fault.at \in LoopPlaces)
  => /\ StoppedAt(fault)
     /\ \A i \in 1..N : TornDownOnce(i)
     /\ report.printed
     /\ exit = "ok"

(***************************************************************************)
(* C5. Launch failure: when launching an instance fails, main() fails and  *)
(* every instance launched before it has been sent quit and closed.        *)
(***************************************************************************)
C5_LaunchFailure ==
  (/\ pc = "done"
   /\ fault.kind = "fail"
   /\ fault.at = "launch")
  => /\ exit = "error"
     /\ \A i \in Launched : TornDownOnce(i)

(***************************************************************************)
(* C6. Teardown failure isolation: when quit or close fails on one         *)
(* instance, every other launched instance still gets its quit and its     *)
(* close.                                                                  *)
(***************************************************************************)
C6_TeardownIsolation ==
  (/\ pc = "done"
   /\ tdfault.kind = "fail")
  => \A i \in Launched \ {tdfault.inst} : TornDownOnce(i)

(***************************************************************************)
(* C7. Fatal protocol failure: after a step or observe call has failed,    *)
(* main() has issued no further step or observe call and has diffed        *)
(* nothing more, has torn down every instance, and has ended with the      *)
(* error and without the report.                                           *)
(***************************************************************************)
C7_FatalProtocolFailure ==
  (/\ pc = "done"
   /\ fault.kind = "fail"
   /\ fault.at \in {"step", "observe"})
  => /\ StoppedAt(fault)
     /\ \A i \in 2..N : diverged[i] <= iter - 1
     /\ \A i \in 1..N : TornDownOnce(i)
     /\ exit = "error"
     /\ ~report.printed

\* The same with the teardown calls themselves returning: this much the code does.
FatalProtocolFailureUnlessTeardownRaises ==
  (/\ pc = "done"
   /\ fault.kind = "fail"
   /\ fault.at \in {"step", "observe"}
   /\ tdfault = NoFault)
  => /\ StoppedAt(fault)
     /\ \A i \in 2..N : diverged[i] <= iter - 1
     /\ \A i \in 1..N : TornDownOnce(i)
     /\ exit = "error"
     /\ ~report.printed

(***************************************************************************)
(* C8. Configuration error: called with the program name alone, main()     *)
(* ends with the usage message, the replay not loaded and no process       *)
(* launched.                                                               *)
(***************************************************************************)
C8_UsageError ==
  (Len(argv) = 1 /\ pc # "main")
  => /\ ~replay_data
     /\ procs = << >>
     /\ pc = "done"
     /\ exit = "usage"

RECURSIVE SumOver(_, _)
SumOver(f, S) ==
  IF S = {}
    THEN 0
    ELSE LET x == CHOOSE y \in S : TRUE IN f[x] + SumOver(f, S \ {x})

(***************************************************************************)
(* C9. Aggregation counts: with --diff, once the loop has run to its end   *)
(* without an exception, the divergence count of every peer is the number  *)
(* of iterations in which compute_diff returned a non-empty diff for it,   *)
(* and the count of every anonymous path is the number of differing        *)
(* fields, over all peers and iterations, whose path it is.                *)
(***************************************************************************)
C9_AggregationCounts ==
  (AfterLoop /\ fault = NoFault /\ exit # "usage" /\ FLAGS.diff)
  => /\ \A i \in 2..N : diff_counts[i] = diverged[i]
     /\ \A q \in AnonPaths :
          diff_paths[q] =
            SumOver(found, { p \in AllPaths : with_anonymous_array_indices(p) = q })

C9_Witness ==
  /\ pc = "done"
  /\ exit = "ok"
  /\ fault = NoFault
  /\ FLAGS.diff
  /\ diff_counts = << 0, 2, 1 >>
  /\ diff_paths[Path(<<"units", "health">>, << Star >>)] = 6
  /\ diff_paths[Path(<<"score", "score">>, << >>)] = 3

(***************************************************************************)
(* C10. Phase ordering within an iteration: a step is issued to instance i *)
(* when exactly the instances before i have been stepped and none has been *)
(* observed; an observe is issued to instance i when all have been stepped *)
(* and exactly the instances before i observed; observations are           *)
(* normalized only when all have been observed and nothing is diffed yet;  *)
(* the diff of peer k is computed on normalized observations when exactly  *)
(* the peers before k have been diffed; and the diff of peer i is recorded *)
(* when all diffs are computed and exactly the diverging peers before i    *)
(* have been recorded.                                                     *)
(***************************************************************************)
C10_PhaseOrdering ==
  [][ /\ \A i \in DOMAIN calls :
           calls'[i]["step"] # calls[i]["step"]
             => \A j \in 1..N :
                  /\ calls[j]["step"] = IF j < i THEN iter ELSE iter - 1
                  /\ calls[j]["observe"] = iter - 1
      /\ \A i \in DOMAIN calls :
           calls'[i]["observe"] # calls[i]["observe"]
             => \A j \in 1..N :
                  /\ calls[j]["step"] = iter
                  /\ calls[j]["observe"] = IF j < i THEN iter ELSE iter - 1
      /\ (Len(obs') = Len(obs) /\ obs' # obs)
           => /\ Len(obs) = N
              /\ \A j \in 1..N : calls[j]["observe"] = iter
              /\ diffs' = << >>
      /\ \A k \in DOMAIN diffs' \ DOMAIN diffs :
           /\ DOMAIN diffs = 2..(k - 1)
           /\ Len(obs) = N
           /\ \A j \in 1..N :
                /\ calls[j]["observe"] = iter
                /\ obs[j] = _clear_non_deterministic_fields(obs[j])
      /\ \A i \in DOMAIN diff_counts :
           diff_counts'[i] # diff_counts[i]
             => /\ i >= 2
                /\ DOMAIN diffs = 2..N
                /\ \A j \in 2..N :
                     diff_counts[j] =
                       IF j >= i /\ diffs[j] # {} THEN diverged[j] - 1 ELSE diverged[j] ]_vars

C10_Witness ==
  /\ pc = "record"
  /\ idx = 3
  /\ N = 3
  /\ diffs[2] # {}
  /\ diffs[3] # {}
  /\ diff_counts = << 0, 1, 0 >>
  /\ \A j \in 1..N : calls[j]["step"] = 1 /\ calls[j]["observe"] = 1

(***************************************************************************)
(* The normalizer on its own: _clear_non_deterministic_fields applied      *)
(* again and again to one observation, drawn from all observations with a  *)
(* few units, orders and actions.  An action is an action_raw with a       *)
(* unit_command, an action_raw without one, or no action_raw at all.       *)
(***************************************************************************)
SeqsUpTo(S, n) == UNION { [1..k -> S] : k \in 0..n }

NormTags == {0, 7}

NormOrders == { Order(t) : t \in NormTags }

NormUnits ==
  { Unit(t, 5, os) : t \in NormTags, os \in SeqsUpTo(NormOrders, MaxOrders) }

NormActions ==
  { UnitCommand(t) : t \in NormTags }
  \cup { [has_action_raw |-> r, has_unit_command |-> FALSE, target_unit_tag |-> 0] :
           r \in BOOLEAN }

NormInputs ==
  [units : SeqsUpTo(NormUnits, MaxUnits),
   actions : SeqsUpTo(NormActions, MaxActions),
   score : {0},
   player_result : BOOLEAN]

NormInit ==
  /\ argv = << >>
  /\ FLAGS = [diff |-> TRUE, count |-> 0]
  /\ version_names = << >>
  /\ replay_data = FALSE
  /\ procs = << >>
  /\ calls = << >>
  /\ pc = "main"
  /\ idx = 0
  /\ iter = 0
  /\ obs = << >>
  /\ diffs = << >>
  /\ diff_counts = << >>
  /\ diff_paths = [p \in AnonPaths |-> 0]
  /\ pending = NoFault
  /\ exit = "running"
  /\ report = NoReport
  /\ fault = NoFault
  /\ tdfault = NoFault
  /\ diverged = << >>
  /\ found = [p \in AllPaths |-> 0]
  /\ norm \in { << o >> : o \in NormInputs }

\* One more call of _clear_non_deterministic_fields on the same observation.
NormApply ==
  /\ norm # << >>
  /\ Len(norm) <= MaxApply
  /\ norm' = Append(norm, _clear_non_deterministic_fields(norm[Len(norm)]))
  /\ UNCHANGED << argv, FLAGS, version_names, replay_data, procs, calls, pc, idx, iter,
                  obs, diffs, diff_counts, diff_paths, pending, exit, report, fault,
                  tdfault, diverged, found >>

NormNext == NormApply

SpecNorm == NormInit /\ [][NormNext]_vars

\* o is i with every unit tag, every order target and every unit_command
\* target cleared, and nothing else changed.
ClearedFrom(o, i) ==
  /\ DOMAIN o = DOMAIN i
  /\ o.score = i.score
  /\ o.player_result = i.player_result
  /\ Len(o.units) = Len(i.units)
  /\ \A k \in 1..Len(i.units) :
       /\ DOMAIN o.units[k] = DOMAIN i.units[k]
       /\ o.units[k].tag = 0
       /\ o.units[k].health = i.units[k].health
       /\ Len(o.units[k].orders) = Len(i.units[k].orders)
       /\ \A j \in 1..Len(i.units[k].orders) :
            /\ o.units[k].orders[j].target_unit_tag = 0
            /\ o.units[k].orders[j].ability_id = i.units[k].orders[j].ability_id
  /\ Len(o.actions) = Len(i.actions)
  /\ \A k \in 1..Len(i.actions) :
       /\ o.actions[k].has_action_raw = i.actions[k].has_action_raw
       /\ o.actions[k].has_unit_command = i.actions[k].has_unit_command
       /\ o.actions[k].target_unit_tag =
            IF i.actions[k].has_action_raw /\ i.actions[k].has_unit_command
              THEN 0
              ELSE i.actions[k].target_unit_tag

(***************************************************************************)
(* C11. Normalization idempotence: a second application of                 *)
(* _clear_non_deterministic_fields leaves the observation as the first     *)
(* left it; after the first no unit has a tag, no order and no raw         *)
(* unit_command a target_unit_tag, and every other field is as it was.     *)
(***************************************************************************)
C11_NormalizationIdempotence ==
  /\ Len(norm) >= 2 => ClearedFrom(norm[2], norm[1])
  /\ \A k \in 3..Len(norm) : norm[k] = norm[2]

C11_Witness ==
  /\ Len(norm) = 3
  /\ norm[2] # norm[1]
  /\ Len(norm[1].units) = 2
  /\ \A k \in 1..2 :
       /\ norm[1].units[k].tag # 0
       /\ norm[1].units[k].orders # << >>
       /\ norm[1].units[k].orders[1].target_unit_tag # 0
  /\ norm[1].actions = << UnitCommand(7) >>

\* Stable ranking of (count, instance) lines: counts never increase, or
\* never decrease, and equal counts keep the instance order.
RankedByCount(sq) ==
  \/ \A k \in 1..(Len(sq) - 1) :
       sq[k][1] > sq[k + 1][1] \/ (sq[k][1] = sq[k + 1][1] /\ sq[k][2] < sq[k + 1][2])
  \/ \A k \in 1..(Len(sq) - 1) :
       sq[k][1] < sq[k + 1][1] \/ (sq[k][1] = sq[k + 1][1] /\ sq[k][2] < sq[k + 1][2])

\* The path lines are the counter's largest counts, largest first, at most TopN.
PathsRanked ==
  /\ Descending(report.paths)
  /\ Len(report.paths) = Min(TopN, Cardinality(Entries(diff_paths)))
  /\ \A k \in DOMAIN report.paths : report.paths[k] \in Entries(diff_paths)
  /\ \A k, l \in DOMAIN report.paths : k # l => report.paths[k] # report.paths[l]
  /\ \A e \in Entries(diff_paths) :
       (\E k \in DOMAIN report.paths : report.paths[k] = e)
       \/ \A k \in DOMAIN report.paths : report.paths[k][1] >= e[1]

C13_FinalTickCompared ==
  (AfterLoop /\ fault = NoFault /\ exit # "usage" /\ FLAGS.diff /\ RefTerminal)
  => /\ Len(obs) = N
     /\ \A j \in 1..N : obs[j] = _clear_non_deterministic_fields(obs[j])
     /\ DOMAIN diffs = 2..N
     /\ \A i \in 2..N :
          /\ diffs[i] = compute_diff(obs[Ref], obs[i])
          /\ diverged[i] >= (IF diffs[i] # {} THEN 1 ELSE 0)
          /\ diff_counts[i] = diverged[i]
     /\ \A q \in AnonPaths :
          diff_paths[q] =
            SumOver(found, { p \in AllPaths : with_anonymous_array_indices(p) = q })

C13_Witness ==
  /\ pc = "quit"
  /\ fault = NoFault
  /\ FLAGS = [diff |-> TRUE, count |-> 2]
  /\ RefTerminal
  /\ iter = 1
  /\ N = 3
  /\ ~obs[2].player_result
  /\ diff_counts = << 0, 1, 0 >>
  /\ diff_paths[Path(<<"player_result">>, << >>)] = 1

(***************************************************************************)
(* C14. Teardown failure does not mask the original error: when a step or  *)
(* observe call failed in the loop and a quit or close then fails in the   *)
(* teardown, the exception that leaves main() is the one of the step or    *)
(* observe call.                                                           *)
(***************************************************************************)
C14_OriginalErrorKept ==
  (/\ pc = "done"
   /\ fault.kind = "fail"
   /\ fault.at \in {"step", "observe"}
   /\ tdfault.kind = "fail")
  => pending = fault

(***************************************************************************)
(* C15. Cancellation never skips teardown: when a KeyboardInterrupt was    *)
(* delivered after the first instance was launched (while later instances  *)
(* are launched, in the loop, or during the teardown itself), then by the  *)
(* time main() has exited every launched instance has been sent exactly    *)
(* one quit and has been closed exactly once.                              *)
(***************************************************************************)
C15_CancellationTeardown ==
  (/\ pc = "done"
   /\ Len(procs) >= 1
   /\ fault.kind = "interrupt" \/ tdfault.kind = "interrupt")
  => \A i \in Launched : TornDownOnce(i)

\* A call of this kind is issued to instance i in this step of the run.
Issued(i, kind) == calls'[i][kind] = calls[i][kind] + 1

\* The calls of the replay phase and of the comparison loop.
ReplayCalls == {"replay_info", "start_replay", "step", "observe"}

(***************************************************************************)
(* C16. Instance lifecycle order: the teardown visits the instances in     *)
(* instance order and sends each its quit before its close; the calls of   *)
(* an instance come in the order launch, at most one start_replay, the     *)
(* step and observe calls, quit, close; no replay_info, start_replay, step *)
(* or observe call is issued to an instance after its quit.  (replay_info  *)
(* goes to the reference only, before any start_replay.)                   *)
(***************************************************************************)
C16_LifecycleOrder ==
  [][ \A i \in DOMAIN calls :
        /\ Issued(i, "launch")
             => \A k \in Phases : calls[i][k] = 0
        /\ Issued(i, "replay_info")
             => /\ i = Ref
                /\ \A j \in DOMAIN calls : calls[j]["start_replay"] = 0
        /\ Issued(i, "start_replay")
             => /\ calls[i]["start_replay"] = 0
                /\ calls[i]["step"] = 0
                /\ calls[i]["observe"] = 0
        /\ (Issued(i, "step") \/ Issued(i, "observe"))
             => calls[i]["start_replay"] = 1
        /\ (\E k \in ReplayCalls : Issued(i, k))
             => /\ calls[i]["launch"] = 1
                /\ calls[i]["quit"] = 0
                /\ calls[i]["close"] = 0
        /\ Issued(i, "quit")
             => /\ calls[i]["launch"] = 1
                /\ calls[i]["quit"] = 0
                /\ calls[i]["close"] = 0
                /\ \A j \in DOMAIN calls :
                     /\ j < i => TornDownOnce(j)
                     /\ j > i => calls[j]["quit"] = 0 /\ calls[j]["close"] = 0
        /\ Issued(i, "close")
             => /\ calls[i]["quit"] = 1
                /\ calls[i]["close"] = 0
                /\ \A j \in DOMAIN calls :
                     /\ j < i => TornDownOnce(j)
                     /\ j > i => calls[j]["quit"] = 0 /\ calls[j]["close"] = 0 ]_vars

\* A step failed on the second of three instances in the second iteration;
\* the teardown has reached the close of the second instance.
C16_Witness ==
  /\ N = 3
  /\ pc = "close"
  /\ idx = 2
  /\ fault = Fault("fail", "step", 2)
  /\ calls[1]["step"] = 2
  /\ TornDownOnce(1)
  /\ calls[2]["quit"] = 1
  /\ calls[2]["close"] = 0
  /\ calls[3]["quit"] = 0

\* The places of the diffing block (lines 121-137).
DiffPlaces == {"normalize", "compute_diff", "record"}

\* What a run with the diff flag off shows in every state.
DiffOffState ==
  /\ pc \notin DiffPlaces
  /\ fault.at \notin DiffPlaces
  /\ diffs = << >>
  /\ \A i \in DOMAIN diverged : diverged[i] = 0
  /\ \A p \in DOMAIN found : found[p] = 0
  /\ \A i \in DOMAIN diff_counts : diff_counts[i] = 0
  /\ \A p \in DOMAIN diff_paths : diff_paths[p] = 0
  /\ report.printed
       => /\ ~report.diff_section
          /\ report.binaries = << >>
          /\ report.paths = << >>

(***************************************************************************)
(* C17. Diff flag off: with the diff flag disabled no observation is       *)
(* normalized (an observation stays as it was returned), no diff is        *)
(* computed, every per-instance counter stays 0 and the path counter stays *)
(* empty through the whole run, and the report has no diff section; the    *)
(* observe pass of an iteration is followed at once by the test of the     *)
(* reference's game result, the same test that ends the iteration when     *)
(* the flag is on.                                                         *)
(***************************************************************************)
C17_DiffFlagOff ==
  /\ [](~FLAGS.diff => DiffOffState)
  /\ [][ ~FLAGS.diff
           => /\ Len(obs') = Len(obs) => obs' = obs
              /\ Len(obs') > Len(obs) => SubSeq(obs', 1, Len(obs)) = obs
              /\ (pc = "observe" /\ Len(obs') = N) => pc' = "check"
              /\ UNCHANGED << diffs, diff_paths >> ]_vars

\* A finished run with the flag off whose instances returned observations
\* that differ and that still carry their tags.
C17_Witness ==
  /\ ~FLAGS.diff
  /\ pc = "done"
  /\ report.printed
  /\ N = 3
  /\ Len(obs) = 3
  /\ calls[1]["observe"] = 2
  /\ obs[2] # obs[1]
  /\ compute_diff(obs[Ref], obs[3]) # {}
  /\ obs[1] # _clear_non_deterministic_fields(obs[1])

(***************************************************************************)
(* C18. Reference-only termination: a game result in a peer's observation  *)
(* never stops the loop.  At the end of an iteration the loop goes on to   *)
(* the next one exactly when the reference's observation has no game       *)
(* result and the count budget is not used up, whatever the peers          *)
(* returned; the next iteration then steps and observes the instances one  *)
(* after the other from the first, a peer that returned a game result      *)
(* included, for as long as no call raises.                                *)
(***************************************************************************)
C18_ReferenceOnlyTermination ==
  [][ /\ pc = "check"
        => /\ (~RefTerminal /\ iter < FLAGS.count)
                => pc' = "step" /\ idx' = 1 /\ iter' = iter + 1
           /\ pc' # "step" => RefTerminal \/ iter = FLAGS.count
      /\ (pc = "step" /\ fault' = fault)
        => /\ Issued(idx, "step")
           /\ IF idx < N
                THEN pc' = "step" /\ idx' = idx + 1
                ELSE pc' = "observe" /\ idx' = 1
      /\ (pc = "observe" /\ fault' = fault)
        => /\ Issued(idx, "observe")
           /\ IF idx < N
                THEN pc' = "observe" /\ idx' = idx + 1
                ELSE pc' \notin {"step", "quit"} ]_vars

\* The second of three instances returned a game result in the first
\* iteration, the reference did not, and the second iteration has stepped
\* that instance again.
C18_Witness ==
  /\ N = 3
  /\ iter = 2
  /\ pc = "step"
  /\ idx = 3
  /\ Len(obs) = 3
  /\ ~RefTerminal
  /\ obs[2].player_result
  /\ calls[2]["step"] = 2
  /\ calls[2]["observe"] = 1

\* Instance i is at most one call of this kind ahead of a later instance j.
InStep(i, j, kind) == calls[i][kind] - calls[j][kind] \in {0, 1}

(***************************************************************************)
(* C19. Lockstep: in every reachable state, those after a failure or an    *)
(* interrupt in the middle of a tick included, for instances i < j the     *)
(* number of step calls issued to i is that of j or one more, likewise for *)
(* the observe calls, and every instance has been observed as often as it  *)
(* has been stepped or once less; when main() has completed with no        *)
(* exception raised, all instances have the same number of step calls and  *)
(* the same number of observe calls.                                       *)
(***************************************************************************)
C19_Lockstep ==
  /\ \A i, j \in DOMAIN calls :
       i < j => InStep(i, j, "step") /\ InStep(i, j, "observe")
  /\ \A i \in DOMAIN calls :
       /\ calls[i]["observe"] <= calls[i]["step"]
       /\ calls[i]["observe"] >= calls[i]["step"] - 1
  /\ (pc = "done" /\ exit = "ok" /\ fault = NoFault)
       => \A i, j \in DOMAIN calls :
            /\ calls[i]["step"] = calls[j]["step"]
            /\ calls[i]["observe"] = calls[j]["observe"]
            /\ calls[i]["observe"] = calls[i]["step"]

\* The observe call of the second of three instances failed in the second
\* iteration, and main() has exited.
C19_Witness ==
  /\ N = 3
  /\ pc = "done"
  /\ fault = Fault("fail", "observe", 2)
  /\ \A i \in 1..3 : calls[i]["step"] = 2
  /\ calls[1]["observe"] = 2
  /\ calls[2]["observe"] = 2
  /\ calls[3]["observe"] = 1

\* The number of iterations in which every instance has returned an
\* observation (an observe call that raised returned none).
FullyObserved ==
  IF calls = << >>
    THEN 0
    ELSE calls[N]["observe"]
           - (IF fault.at = "observe" /\ fault.inst = N THEN 1 ELSE 0)

(***************************************************************************)
(* C20. Counter bounds: in every reachable state the divergence counter of *)
(* the reference is 0 and the counter of each peer is at most the number   *)
(* of ticks for which all instances have been observed; with one instance  *)
(* no diff is ever recorded: every counter stays 0 and the path table      *)
(* stays empty.                                                            *)
(***************************************************************************)
C20_CounterBounds ==
  /\ diff_counts # << >> => diff_counts[Ref] = 0
  /\ \A i \in DOMAIN diff_counts : diff_counts[i] <= FullyObserved
  /\ N = 1
       => /\ \A i \in DOMAIN diff_counts : diff_counts[i] = 0
          /\ \A p \in DOMAIN diff_paths : diff_paths[p] = 0
          /\ \A i \in DOMAIN diffs : diffs[i] = {}
          /\ pc # "record"

\* Two ticks, both fully observed: the second instance diverged in both,
\* the third in one of them.
C20_Witness ==
  /\ N = 3
  /\ FullyObserved = 2
  /\ diff_counts = << 0, 2, 1 >>
  /\ pc = "done"
====
